---- MODULE Spec2Model ----
(***************************************************************************)
(* Model of app.py: the directory scans (get_latest_csv_file,              *)
(* get_all_csv_files, list_rrg_gifs_sorted), the data-loading and          *)
(* common-symbols steps of main, and read_gif_frames.                      *)
(*                                                                         *)
(* A filename is a sequence of one-character strings.  An Optional value   *)
(* is <<>> (None) or <<x>> (a value x).                                    *)
(***************************************************************************)
EXTENDS Integers, Sequences, FiniteSets, TLC

VARIABLES dirExists, listing, mtimes, vanished, call,
          latest_data, selected_data, shown,
          reader, frames_out

vars == <<dirExists, listing, mtimes, vanished, call,
          latest_data, selected_data, shown, reader, frames_out>>

scanVars == <<dirExists, listing, mtimes, vanished, call>>
reconcileVars == <<latest_data, selected_data, shown>>
frameVars == <<reader, frames_out>>

\* ----------------------------------------------------------------- bounds
MaxFiles == 3
MaxRows == 2
MaxFrames == 2
MaxChannels == 4

\* -------------------------------------------------------------- Optional
None == <<>>
Some(x) == <<x>>
IsNone(o) == o = <<>>
Val(o) == o[1]

Range(s) == {s[i] : i \in 1..Len(s)}

\* ------------------------------------------------------------ characters
Digits == <<"0", "1", "2", "3", "4", "5", "6", "7", "8", "9">>
IsDigit(c) == \E i \in 1..10 : Digits[i] = c
DigitVal(c) == (CHOOSE i \in 1..10 : Digits[i] = c) - 1

Uppers == <<"C", "F", "G", "I", "S", "V">>
Lowers == <<"c", "f", "g", "i", "s", "v">>
\* str.lower() on one character
LowerChar(c) ==
  IF \E i \in 1..Len(Uppers) : Uppers[i] = c
  THEN Lowers[CHOOSE i \in 1..Len(Uppers) : Uppers[i] = c]
  ELSE c
Lower(name) == [i \in 1..Len(name) |-> LowerChar(name[i])]

\* str.endswith
EndsWith(name, suffix) ==
  /\ Len(name) >= Len(suffix)
  /\ SubSeq(name, Len(name) - Len(suffix) + 1, Len(name)) = suffix

\* f.lower().endswith(".csv"), f.lower().endswith(".gif")
LowerEndsWithCsv(f) == EndsWith(Lower(f), <<".", "c", "s", "v">>)
LowerEndsWithGif(f) == EndsWith(Lower(f), <<".", "g", "i", "f">>)

\* ----------------------------------------------------- the file name pool
F_a == <<"a", "_", "2", "0", "2", "4", "0", "1", "0", "1", ".", "g", "i", "f">>
F_b == <<"b", "_", "2", "0", "2", "4", "1", "2", "3", "1", ".", "g", "i", "f">>
F_c == <<"c", ".", "g", "i", "f">>
F_d == <<"d", "_", "2", "0", "2", "4", "0", "1", "0", "1", ".", "G", "I", "F">>
F_r == <<"r", "_", "2", "0", "2", "5", "1", "3", "9", "9", "_",
         "2", "0", "2", "4", "0", "1", "0", "1", ".", "g", "i", "f">>
F_n == <<"n", ".", "c", "s", "v">>
F_m == <<"m", ".", "C", "S", "V">>

FileNames == {F_a, F_b, F_c, F_d, F_r, F_n, F_m}
MtimeValues == {0, 1}

\* ------------------------------------------------------------- the dates
\* int() of a run of digits
RECURSIVE Num(_)
Num(ds) == IF ds = <<>> THEN 0
           ELSE 10 * Num(SubSeq(ds, 1, Len(ds) - 1)) + DigitVal(ds[Len(ds)])

\* re.compile(r"(\d{8})").search(f): the leftmost run of 8 digits, or None
AllDigits(name, i) == \A k \in i..(i + 7) : IsDigit(name[k])
MatchStarts(name) == {i \in 1..(Len(name) - 7) : AllDigits(name, i)}
DateSearchFirstValid(name) ==
  LET ok == {i \in MatchStarts(name) :
               LET y == Num(SubSeq(name, i, i + 3))
                   m == Num(SubSeq(name, i + 4, i + 5))
                   d == Num(SubSeq(name, i + 6, i + 7))
               IN y >= 1 /\ m \in 1..12 /\ d \in 1..31}
  IN IF ok = {} THEN None
     ELSE LET i == CHOOSE j \in ok : \A k \in ok : j <= k
          IN Some(SubSeq(name, i, i + 7))
DateSearch(name) ==
  IF MatchStarts(name) = {} THEN None
  ELSE LET i == CHOOSE j \in MatchStarts(name) : \A k \in MatchStarts(name) : j <= k
       IN Some(SubSeq(name, i, i + 7))

IsLeap(y) == (y % 4 = 0 /\ y % 100 # 0) \/ y % 400 = 0
DaysInMonth(y, m) ==
  IF m = 2 THEN (IF IsLeap(y) THEN 29 ELSE 28)
  ELSE IF m \in {4, 6, 9, 11} THEN 30 ELSE 31

\* dt.strptime(token, "%Y%m%d") on 8 digits: the date as <<y, m, d>>, or None
\* where strptime raises ValueError
Strptime(tok) ==
  LET y == Num(SubSeq(tok, 1, 4))
      m == Num(SubSeq(tok, 5, 6))
      d == Num(SubSeq(tok, 7, 8))
  IN IF y >= 1 /\ m \in 1..12 /\ d >= 1 /\ d <= DaysInMonth(y, m)
     THEN Some(<<y, m, d>>) ELSE None

\* the loop body of lines 64-73: the parsed date of one filename, or None
SearchAndParse(f) ==
  LET m == DateSearch(f)
  IN IF IsNone(m) THEN None ELSE Strptime(Val(m))

\* what the code computes from each name of the pool, computed once
NameFacts ==
  [f \in FileNames |-> [csv |-> LowerEndsWithCsv(f), gif |-> LowerEndsWithGif(f),
                        date |-> SearchAndParse(f)]]
IsCsv(f) == NameFacts[f].csv
IsGif(f) == NameFacts[f].gif
ParsedDate(f) == NameFacts[f].date

\* the sort key of a datetime <<y, m, d>>: datetimes compare by year, then
\* month, then day
DateKey(p) == (p[1] * 100 + p[2]) * 100 + p[3]

\* ------------------------------------------------------------- list.sort
\* list.sort(key=..., reverse=True) over a sequence of <<item, key>> pairs:
\* descending by key, and stable (equal keys keep their original order)
RECURSIVE InsertDesc(_, _)
InsertDescUnstable(s, e) ==
  IF s = <<>> THEN <<e>>
  ELSE IF s[1][2] > e[2] THEN <<s[1]>> \o InsertDesc(Tail(s), e)
  ELSE <<e>> \o s
InsertDesc(s, e) ==
  IF s = <<>> THEN <<e>>
  ELSE IF s[1][2] >= e[2] THEN <<s[1]>> \o InsertDesc(Tail(s), e)
  ELSE <<e>> \o s

RECURSIVE SortDesc(_)
SortDesc(s) ==
  IF s = <<>> THEN <<>>
  ELSE InsertDesc(SortDesc(SubSeq(s, 1, Len(s) - 1)), s[Len(s)])

\* ----------------------------------------------------- get_latest_csv_file
\* the loop of lines 24-35 over csv_files, from (latest_file, latest_time);
\* mt[f] is None where os.path.getmtime(f) raises
RECURSIVE LatestLoop(_, _, _, _)
LatestLoopNoTry(fs, mt, latest_file, latest_time) ==
  IF fs = <<>> THEN [status |-> "ok", file |-> latest_file, time |-> Some(latest_time)]
  ELSE IF IsNone(mt[fs[1]])
       THEN [status |-> "raised", file |-> None, time |-> None]
       ELSE IF Val(mt[fs[1]]) > latest_time
            THEN LatestLoop(Tail(fs), mt, Some(fs[1]), Val(mt[fs[1]]))
            ELSE LatestLoop(Tail(fs), mt, latest_file, latest_time)
LatestLoop(fs, mt, latest_file, latest_time) ==
  IF fs = <<>> THEN [status |-> "ok", file |-> latest_file, time |-> Some(latest_time)]
  ELSE IF IsNone(mt[fs[1]])
       THEN LatestLoop(Tail(fs), mt, latest_file, latest_time)
       ELSE IF Val(mt[fs[1]]) > latest_time
            THEN LatestLoop(Tail(fs), mt, Some(fs[1]), Val(mt[fs[1]]))
            ELSE LatestLoop(Tail(fs), mt, latest_file, latest_time)

GetLatestNoEmptyCheck(isdir, ls, mt) ==
  IF ~isdir THEN [status |-> "ok", file |-> None, time |-> None]
  ELSE LatestLoop(SelectSeq(ls, IsCsv), mt, None, 0)
get_latest_csv_file(isdir, ls, mt) ==
  IF ~isdir THEN [status |-> "ok", file |-> None, time |-> None]
  ELSE LET csv_files == SelectSeq(ls, IsCsv)
       IN IF csv_files = <<>>
          THEN [status |-> "ok", file |-> None, time |-> None]
          ELSE LatestLoop(csv_files, mt, None, 0)

\* ------------------------------------------------------- get_all_csv_files
get_all_csv_files(isdir, ls) ==
  IF ~isdir THEN <<>> ELSE SelectSeq(ls, IsCsv)

\* ---------------------------------------------------- list_rrg_gifs_sorted
HasDate(f) == ~IsNone(ParsedDate(f))
NoDate(f) == IsNone(ParsedDate(f))

\* lines 61-73: the files whose token parses, each with its date, in listing order
WithDate(gif_files) ==
  LET fs == SelectSeq(gif_files, HasDate)
  IN [i \in 1..Len(fs) |-> <<fs[i], Val(ParsedDate(fs[i]))>>]
\* lines 61-73: the other files, in listing order
WithoutDate(gif_files) == SelectSeq(gif_files, NoDate)

\* line 76: with_date.sort(key=lambda x: x[1], reverse=True)
SortWithDate(with_date) ==
  LET keyed == [i \in 1..Len(with_date) |-> <<with_date[i], DateKey(with_date[i][2])>>]
      sorted == SortDesc(keyed)
  IN [i \in 1..Len(sorted) |-> sorted[i][1]]

\* lines 79-81: the mtime key of an undated file; os.path.exists(f) is false
\* where the file cannot be stat'ed
MtimeKey(f, mt) == IF IsNone(mt[f]) THEN 0 ELSE Val(mt[f])

\* lines 78-83: without_date.sort(key=mtime-or-0, reverse=True)
SortWithoutDate(without_date, mt) ==
  LET keyed == [i \in 1..Len(without_date) |->
                  <<without_date[i], MtimeKey(without_date[i], mt)>>]
      sorted == SortDesc(keyed)
  IN [i \in 1..Len(sorted) |-> sorted[i][1]]

\* line 85: out = dated entries + undated entries
OutUndatedFirst(with_date, without_date) ==
  [i \in 1..Len(without_date) |-> <<without_date[i], None>>]
  \o [i \in 1..Len(with_date) |-> <<with_date[i][1], Some(with_date[i][2])>>]
Out(with_date, without_date) ==
  [i \in 1..Len(with_date) |-> <<with_date[i][1], Some(with_date[i][2])>>]
  \o [i \in 1..Len(without_date) |-> <<without_date[i], None>>]

\* gone: the undated files deleted after os.path.exists(f) answered True and
\* before os.path.getmtime(f) ran (line 79 then raises out of the sort)
list_rrg_gifs_sorted(isdir, ls, mt, gone) ==
  IF ~isdir THEN [status |-> "ok", out |-> <<>>]
  ELSE LET gif_files == SelectSeq(ls, IsGif)
       IN IF gif_files = <<>> THEN [status |-> "ok", out |-> <<>>]
          ELSE IF Range(WithoutDate(gif_files)) \cap gone # {}
               THEN [status |-> "raised", out |-> <<>>]
               ELSE [status |-> "ok",
                     out |-> Out(SortWithDate(WithDate(gif_files)),
                                 SortWithoutDate(WithoutDate(gif_files), mt))]

\* -------------------------------------------------- main: data loading
\* lines 157-164: "stopped" is st.stop() after the no-CSV error; "raised" is
\* os.path.join(path, None) raising TypeError
MainDataLoading(isdir, ls, mt) ==
  LET all_files == get_all_csv_files(isdir, ls)
      latest == get_latest_csv_file(isdir, ls, mt)
  IN IF all_files = <<>>
     THEN [status |-> "stopped", all_files |-> all_files, file |-> None, time |-> None]
     ELSE IF IsNone(latest.file)
          THEN [status |-> "raised", all_files |-> all_files,
                file |-> latest.file, time |-> latest.time]
          ELSE [status |-> "loaded", all_files |-> all_files,
                file |-> latest.file, time |-> latest.time]

\* ------------------------------------------------- the directory scans
RECURSIVE Listings(_)
\* what os.listdir can return: n distinct names, in any order
Listings(n) ==
  IF n = 0 THEN {<<>>}
  ELSE UNION {{Append(l, f) : f \in FileNames \ Range(l)} : l \in Listings(n - 1)}
AllListings == UNION {Listings(n) : n \in 0..MaxFiles}

\* os.path.getmtime of a file: a time, or None where the stat fails
MtimeOptions == {None} \cup {Some(t) : t \in MtimeValues}

NoCall == [op |-> "none", status |-> "ok", out |-> <<>>, all_files |-> <<>>,
           file |-> None, time |-> None]

CallGetLatestCsvFile ==
  /\ call.op = "none"
  /\ LET r == get_latest_csv_file(dirExists, listing, mtimes)
     IN call' = [NoCall EXCEPT !.op = "latest", !.status = r.status,
                               !.file = r.file, !.time = r.time]
  /\ UNCHANGED <<dirExists, listing, mtimes, vanished>>
  /\ UNCHANGED <<reconcileVars, frameVars>>

CallGetAllCsvFiles ==
  /\ call.op = "none"
  /\ call' = [NoCall EXCEPT !.op = "all",
                            !.all_files = get_all_csv_files(dirExists, listing)]
  /\ UNCHANGED <<dirExists, listing, mtimes, vanished>>
  /\ UNCHANGED <<reconcileVars, frameVars>>

\* the undated GIFs that can be stat'ed when the scan starts: each may be
\* deleted between the two stats of lines 79-80
CanVanish == {f \in Range(listing) : IsGif(f) /\ NoDate(f) /\ ~IsNone(mtimes[f])}

CallListRrgGifsSorted ==
  /\ call.op = "none"
  /\ \E gone \in SUBSET CanVanish :
       /\ vanished' = gone
       /\ LET r == list_rrg_gifs_sorted(dirExists, listing, mtimes, gone)
          IN call' = [NoCall EXCEPT !.op = "gifs", !.status = r.status, !.out = r.out]
  /\ UNCHANGED <<dirExists, listing, mtimes>>
  /\ UNCHANGED <<reconcileVars, frameVars>>

CallMainDataLoading ==
  /\ call.op = "none"
  /\ LET r == MainDataLoading(dirExists, listing, mtimes)
     IN call' = [NoCall EXCEPT !.op = "main", !.status = r.status,
                               !.all_files = r.all_files,
                               !.file = r.file, !.time = r.time]
  /\ UNCHANGED <<dirExists, listing, mtimes, vanished>>
  /\ UNCHANGED <<reconcileVars, frameVars>>

\* ------------------------------------------- main: symbols in both datasets
\* A snapshot is a loaded DataFrame: its column names and its rows (each row a
\* function from the column names to values).  pd.read_csv gives at least one
\* column.
Symbols == {"AAPL", "MSFT"}
Scores == {5, 7}
ColumnSets == {{"symbol"}, {"symbol", "score"}, {"score"}}
RowsOf(cols) ==
  {[c \in cols |-> IF c = "symbol" THEN s ELSE v] : s \in Symbols, v \in Scores}
RECURSIVE RowSeqs(_, _)
RowSeqs(cols, n) ==
  IF n = 0 THEN {<<>>}
  ELSE {Append(rs, r) : rs \in RowSeqs(cols, n - 1), r \in RowsOf(cols)}
Snapshots ==
  UNION {{[columns |-> cols, rows |-> rs] : rs \in RowSeqs(cols, n)} :
           cols \in ColumnSets, n \in 0..MaxRows}

key_column == "symbol"

\* DataFrame.empty: some axis has length 0
Empty(df) == df.columns = {} \/ df.rows = <<>>

\* the rows of right whose key equals that of row i of left, in right's order
RowMatchesFirstOnly(left, right, i) ==
  LET js == SelectSeq([j \in 1..Len(right.rows) |-> j],
                      LAMBDA j : right.rows[j][key_column] = left.rows[i][key_column])
  IN IF js = <<>> THEN <<>>
     ELSE <<[l |-> i, r |-> js[1], key |-> left.rows[i][key_column]]>>
RowMatches(left, right, i) ==
  LET js == SelectSeq([j \in 1..Len(right.rows) |-> j],
                      LAMBDA j : right.rows[j][key_column] = left.rows[i][key_column])
  IN [n \in 1..Len(js) |-> [l |-> i, r |-> js[n], key |-> left.rows[i][key_column]]]

\* pd.merge(left, right, on=key_column, how="inner"): one output row per pair
\* of a left row and a right row with equal keys, in left order; l and r are
\* the positions of the two rows the output row is made of
RECURSIVE MergeFrom(_, _, _)
MergeFrom(left, right, i) ==
  IF i > Len(left.rows) THEN <<>>
  ELSE RowMatches(left, right, i) \o MergeFrom(left, right, i + 1)
Merge(left, right) == MergeFrom(left, right, 1)

\* lines 206-238; sel is None when there is no comparison file (line 190).
\* "silent": nothing is written under the subheader
CommonSymbols(latest, sel) ==
  IF ~IsNone(sel) /\ ~Empty(latest)
  THEN IF key_column \notin latest.columns \/ key_column \notin Val(sel).columns
       THEN [outcome |-> "missing_key", count |-> 0, rows |-> <<>>]
       ELSE LET common_symbols == Merge(latest, Val(sel))
            IN IF common_symbols = <<>>
               THEN [outcome |-> "no_common", count |-> 0, rows |-> <<>>]
               ELSE [outcome |-> "found", count |-> Len(common_symbols),
                     rows |-> Merge(latest, Val(sel))]
  ELSE [outcome |-> "silent", count |-> 0, rows |-> <<>>]

Pending == [outcome |-> "pending", count |-> 0, rows |-> <<>>]

MainCommonSymbols ==
  /\ shown = Pending
  /\ shown' = CommonSymbols(latest_data, selected_data)
  /\ UNCHANGED <<latest_data, selected_data>>
  /\ UNCHANGED <<scanVars, frameVars>>

\* --------------------------------------------------------- read_gif_frames
\* A raw frame: its number of dimensions, its channel count (0 for a 2-D
\* frame), its sample type, and whether it holds no sample at all (np.nanmax
\* then raises ValueError).
Dtypes == {"uint8", "uint16", "float64"}
RawFrames ==
  {[ndim |-> 2, ch |-> 0, dtype |-> t, size0 |-> z] : t \in Dtypes, z \in BOOLEAN}
  \cup {[ndim |-> 3, ch |-> c, dtype |-> t, size0 |-> z] :
          c \in 1..MaxChannels, t \in Dtypes, z \in BOOLEAN}
\* imageio.mimread: it raises, or it returns n raw frames
Readers(n) ==
  IF n = 0 THEN {[ok |-> FALSE, frames |-> <<>>], [ok |-> TRUE, frames |-> <<>>]}
  ELSE {[ok |-> TRUE, frames |-> fs] : fs \in [1..n -> RawFrames]}

\* lines 102-104
StackGray(arr) == IF arr.ndim = 2 THEN [arr EXCEPT !.ndim = 3, !.ch = 3] ELSE arr
\* lines 105-107
DropAlpha(arr) == IF arr.ndim = 3 /\ arr.ch = 4 THEN [arr EXCEPT !.ch = 3] ELSE arr
\* lines 109-114: how the samples became uint8: "kept" (they were), "rescaled"
\* (line 112), "truncated" (line 112 raised, line 114 ran)
EnsureUint8(arr) ==
  IF arr.dtype # "uint8"
  THEN IF arr.size0
       THEN [ndim |-> arr.ndim, ch |-> arr.ch, dtype |-> "uint8", how |-> "truncated"]
       ELSE [ndim |-> arr.ndim, ch |-> arr.ch, dtype |-> "uint8", how |-> "rescaled"]
  ELSE [ndim |-> arr.ndim, ch |-> arr.ch, dtype |-> arr.dtype, how |-> "kept"]

\* the loop body of lines 101-115
NormalizeFrame(fr) == EnsureUint8(DropAlpha(StackGray(fr)))

ReadGifFramesNoTry(rd) ==
  IF ~rd.ok THEN [status |-> "raised", frames |-> <<>>]
  ELSE [status |-> "ok",
        frames |-> [i \in 1..Len(rd.frames) |-> NormalizeFrame(rd.frames[i])]]
read_gif_frames(rd) ==
  IF ~rd.ok THEN [status |-> "ok", frames |-> <<>>]
  ELSE [status |-> "ok",
        frames |-> [i \in 1..Len(rd.frames) |-> NormalizeFrame(rd.frames[i])]]

NotRead == [status |-> "pending", frames |-> <<>>]

CallReadGifFrames ==
  /\ frames_out = NotRead
  /\ frames_out' = read_gif_frames(reader)
  /\ UNCHANGED reader
  /\ UNCHANGED <<scanVars, reconcileVars>>

\* ------------------------------------------------------ the specifications
IdleScan ==
  /\ dirExists = FALSE /\ listing = <<>> /\ mtimes = <<>> /\ vanished = {}
  /\ call = NoCall
IdleReconcile ==
  /\ latest_data = [columns |-> {"symbol"}, rows |-> <<>>]
  /\ selected_data = None
  /\ shown = Pending
IdleFrames == reader = [ok |-> FALSE, frames |-> <<>>] /\ frames_out = NotRead

\* the directory scans: any directory, then one call
Init ==
  /\ dirExists \in BOOLEAN
  /\ listing \in (IF dirExists THEN AllListings ELSE {<<>>})
  /\ mtimes \in [Range(listing) -> MtimeOptions]
  /\ vanished = {}
  /\ call = NoCall
  /\ IdleReconcile /\ IdleFrames
Next ==
  \/ CallGetLatestCsvFile
  \/ CallGetAllCsvFiles
  \/ CallListRrgGifsSorted
  \/ CallMainDataLoading
Spec == Init /\ [][Next]_vars

\* the common-symbols step of main: any two loaded snapshots, then the step
InitReconcile ==
  /\ latest_data \in Snapshots
  /\ selected_data \in {None} \cup {Some(s) : s \in Snapshots}
  /\ shown = Pending
  /\ IdleScan /\ IdleFrames
NextReconcile == MainCommonSymbols
SpecReconcile == InitReconcile /\ [][NextReconcile]_vars

\* read_gif_frames: any reader outcome, then the call
InitFrames ==
  /\ \E n \in 0..MaxFrames : reader \in Readers(n)
  /\ frames_out = NotRead
  /\ IdleScan /\ IdleReconcile
NextFrames == CallReadGifFrames
SpecFrames == InitFrames /\ [][NextFrames]_vars

\* =================================================================== claims
Names(out) == [i \in 1..Len(out) |-> out[i][1]]
Position(seq, x) == CHOOSE i \in 1..Len(seq) : seq[i] = x
GifsListed == {f \in Range(listing) : IsGif(f)}
CsvsListed == {f \in Range(listing) : IsCsv(f)}
Unreadable(f) == IsNone(mtimes[f])
GifsReturned == call.op = "gifs" /\ call.status = "ok"

\* p is an earlier date than q, both <<year, month, day>>
Earlier(p, q) ==
  \/ p[1] < q[1]
  \/ p[1] = q[1] /\ p[2] < q[2]
  \/ p[1] = q[1] /\ p[2] = q[2] /\ p[3] < q[3]

\* the characters of the pool in code-point order, and the lexicographic
\* order of names they give
CodePoints == <<".", "0", "1", "2", "3", "4", "5", "6", "7", "8", "9",
                "C", "F", "G", "I", "S", "V", "_",
                "a", "b", "c", "d", "f", "g", "i", "m", "n", "r", "s", "v">>
Ord(c) == CHOOSE i \in 1..Len(CodePoints) : CodePoints[i] = c
RECURSIVE NameLess(_, _)
NameLess(x, y) ==
  IF y = <<>> THEN FALSE
  ELSE IF x = <<>> THEN TRUE
  ELSE IF Ord(x[1]) # Ord(y[1]) THEN Ord(x[1]) < Ord(y[1])
  ELSE NameLess(Tail(x), Tail(y))

\* C1: in the list list_rrg_gifs_sorted returns, every entry with a parsed
\* date precedes every entry without one, whatever the modification times;
\* a_20240101.gif, b_20241231.gif and a newest c.gif come out as b, a, c.
C1_DatedBeforeDateless ==
  GifsReturned =>
    /\ \A i, j \in 1..Len(call.out) :
         (~IsNone(call.out[i][2]) /\ IsNone(call.out[j][2])) => i < j
    /\ (/\ Range(listing) = {F_a, F_b, F_c}
        /\ \A f \in {F_a, F_b} :
             ~Unreadable(f) /\ ~Unreadable(F_c) /\ Val(mtimes[f]) < Val(mtimes[F_c]))
       => Names(call.out) = <<F_b, F_a, F_c>>

C1_Witness ==
  /\ GifsReturned
  /\ Range(listing) = {F_a, F_b, F_c}
  /\ mtimes[F_a] = Some(0) /\ mtimes[F_b] = Some(0) /\ mtimes[F_c] = Some(1)
  /\ call.out = <<<<F_b, Some(<<2024, 12, 31>>)>>, <<F_a, Some(<<2024, 1, 1>>)>>,
                  <<F_c, None>>>>

AllDated == \A i \in 1..Len(call.out) : ~IsNone(call.out[i][2])

BadTokenNames == {F_r}
NoTokenNames == {F_c}
\* the modification time the undated files are ranked by
RankTime(f) == IF Unreadable(f) THEN 0 ELSE Val(mtimes[f])

\* C8: a GIF name whose first run of 8 digits is not a calendar date gets
\* no parsed date, although a later run of the name is one, and is ranked
\* as the names without digits are: after every dated entry, and among the
\* undated ones by modification time, newest first.
C8_FirstTokenOnly ==
  GifsReturned =>
    \A f \in BadTokenNames \cap GifsListed :
      /\ \E i \in 1..Len(call.out) : call.out[i] = <<f, None>>
      /\ \A i, j \in 1..Len(call.out) :
           (call.out[j][1] = f /\ call.out[i][1] \notin BadTokenNames \cup NoTokenNames)
             => i < j
      /\ \A g \in NoTokenNames \cap GifsListed :
           /\ \E i \in 1..Len(call.out) : call.out[i] = <<g, None>>
           /\ RankTime(f) > RankTime(g) =>
                Position(Names(call.out), f) < Position(Names(call.out), g)
           /\ RankTime(f) < RankTime(g) =>
                Position(Names(call.out), g) < Position(Names(call.out), f)

C8_Witness ==
  /\ GifsReturned
  /\ Range(listing) = {F_c, F_r, F_a}
  /\ mtimes[F_c] = Some(0) /\ mtimes[F_r] = Some(1)
  /\ Names(call.out) = <<F_a, F_r, F_c>>

NothingToList(matching) == ~dirExists \/ matching = {}

\* C9: with the directory missing, or holding no file of the extension,
\* get_latest_csv_file returns (None, None), get_all_csv_files returns []
\* and list_rrg_gifs_sorted returns [], none of them raising.
C9_EmptyResults ==
  /\ (call.op = "latest" /\ NothingToList(CsvsListed)) =>
       call.status = "ok" /\ call.file = None /\ call.time = None
  /\ (call.op = "all" /\ NothingToList(CsvsListed)) =>
       call.status = "ok" /\ call.all_files = <<>>
  /\ (call.op = "gifs" /\ NothingToList(GifsListed)) =>
       call.status = "ok" /\ call.out = <<>>

C9_Witness ==
  /\ call.op = "latest" /\ dirExists /\ listing # <<>> /\ CsvsListed = {}
  /\ call.file = None /\ call.time = None

C10_LatestAmongListed ==
  (call.op = "main" /\ call.all_files # <<>>) =>
    /\ call.status = "loaded"
    /\ ~IsNone(call.file)
    /\ Val(call.file) \in Range(call.all_files)
    /\ ~Unreadable(Val(call.file))
    /\ \A f \in Range(call.all_files) :
         ~Unreadable(f) => Val(mtimes[f]) <= Val(mtimes[Val(call.file)])

\* ------------------------------------------------- claims: common symbols
Stepped == shown # Pending
BothLoaded == ~IsNone(selected_data)
KeyMissing ==
  \/ key_column \notin latest_data.columns
  \/ key_column \notin Val(selected_data).columns
LeftRows == latest_data.rows
RightRows == Val(selected_data).rows
\* how many rows of a snapshot carry key k
KeyCount(rows, k) == Cardinality({i \in 1..Len(rows) : rows[i][key_column] = k})

\* C3: with both snapshots loaded and the key column absent from at least
\* one of them, the step reports the missing key column; it never ends with
\* a zero-match message or with nothing reported.
C3_MissingKeyReported ==
  (Stepped /\ BothLoaded /\ KeyMissing) => shown.outcome = "missing_key"

\* C4: with the key column in both snapshots, the result holds exactly one
\* row for each pair of a left row and a right row of equal keys (m * n rows
\* for a key held by m left rows and n right rows), no row carries a key
\* missing from either input, and the reported count is the number of rows
\* displayed.
C4_InnerJoinCrossProduct ==
  (Stepped /\ BothLoaded /\ ~KeyMissing) =>
    /\ shown.outcome \in {"found", "no_common", "silent"}
    /\ \A i \in 1..Len(LeftRows), j \in 1..Len(RightRows) :
         Cardinality({n \in 1..Len(shown.rows) :
                        shown.rows[n].l = i /\ shown.rows[n].r = j})
           = (IF LeftRows[i][key_column] = RightRows[j][key_column] THEN 1 ELSE 0)
    /\ \A k \in Symbols :
         Cardinality({n \in 1..Len(shown.rows) : shown.rows[n].key = k})
           = KeyCount(LeftRows, k) * KeyCount(RightRows, k)
    /\ \A n \in 1..Len(shown.rows) :
         /\ shown.rows[n].l \in 1..Len(LeftRows)
         /\ shown.rows[n].r \in 1..Len(RightRows)
         /\ shown.rows[n].key = LeftRows[shown.rows[n].l][key_column]
         /\ shown.rows[n].key = RightRows[shown.rows[n].r][key_column]
    /\ shown.outcome = "found" => shown.count = Len(shown.rows)
    /\ shown.outcome = "found" <=> shown.rows # <<>>

C4_Witness ==
  /\ Stepped /\ BothLoaded /\ ~KeyMissing
  /\ Len(LeftRows) = 2 /\ Len(RightRows) = 2
  /\ KeyCount(LeftRows, "MSFT") = 2 /\ KeyCount(RightRows, "MSFT") = 2
  /\ shown.outcome = "found" /\ shown.count = 4

\* ------------------------------------------------ claims: read_gif_frames
Decoded == frames_out # NotRead
\* line 112 raises on this raw frame
RescaleRaises(fr) == fr.dtype # "uint8" /\ fr.size0

\* C6 as stated: read_gif_frames never raises, and a failure of the reader,
\* a failure while normalizing any single frame, or a source of zero frames
\* gives the empty list.
C6_Original ==
  Decoded =>
    /\ frames_out.status = "ok"
    /\ (\/ ~reader.ok
        \/ reader.frames = <<>>
        \/ \E i \in 1..Len(reader.frames) : RescaleRaises(reader.frames[i]))
       => frames_out.frames = <<>>

\* C6 amended: read_gif_frames never raises on frames of numeric samples; a
\* failure of the reader or a source of zero frames gives the empty list; a
\* failure while rescaling a frame is caught, the frame is converted by
\* plain truncation and kept, so the list has one entry per raw frame.
C6_FailClosedReaderOnly ==
  Decoded =>
    /\ frames_out.status = "ok"
    /\ (~reader.ok \/ reader.frames = <<>>) => frames_out.frames = <<>>
    /\ reader.ok =>
         /\ Len(frames_out.frames) = Len(reader.frames)
         /\ \A i \in 1..Len(reader.frames) :
              RescaleRaises(reader.frames[i]) <=> frames_out.frames[i].how = "truncated"

C6_Witness ==
  /\ Decoded /\ reader.ok /\ Len(reader.frames) = 2
  /\ RescaleRaises(reader.frames[1]) /\ ~RescaleRaises(reader.frames[2])
  /\ Len(frames_out.frames) = 2
  /\ frames_out.frames[1].how = "truncated"

\* C7: every frame read_gif_frames returns has three dimensions, exactly
\* three channels and 8-bit unsigned samples.
C7_AllFramesRgbUint8 ==
  Decoded =>
    \A i \in 1..Len(frames_out.frames) :
      /\ frames_out.frames[i].ndim = 3
      /\ frames_out.frames[i].ch = 3
      /\ frames_out.frames[i].dtype = "uint8"

====
